---- MODULE Spec2Model ----
(***************************************************************************)
(* Model of the core of AMB_KCR.py: the entity classes Hospital, Patient   *)
(* and Ambulance, the ReferralSystem ledger, the AmbulanceTracker and the  *)
(* CommunicationSystem message log.                                        *)
(*                                                                         *)
(* Objects are represented by small integers (their identity); a reference *)
(* held in a field is the integer of the object referred to, None is 0.    *)
(* datetime.datetime.now() is modelled as reading a clock that never runs  *)
(* backwards: each read returns some value not smaller than the last one.  *)
(***************************************************************************)
EXTENDS Integers, Sequences, FiniteSets, TLC

\* ---------------------------------------------------------------- bounds
NumHospitals == 2
NumPatients == 2
NumAmbulances == 2
MaxCapacity == 2
MaxReferrals == 2
MaxHistory == 2
MaxTime == 2
MaxMessages == 3
TripMinutes == 1

\* ------------------------------------------------------- program constants
\* The names of the patients seeded into the session.
PatientNames == <<"John Otieno", "Mary Achieng'", "Beatrice Ayako">>

\* generate_route's default num_points.
num_points == 6

None == 0

Patients == 1..NumPatients
Hospitals == 1..NumHospitals
Ambs == 1..NumAmbulances

\* Patient.name, Hospital.name and Ambulance.id as set by the constructors.
PatientName(p) ==
    IF p <= Len(PatientNames) THEN PatientNames[p] ELSE "Patient " \o ToString(p)
HospitalName(h) == "Hospital " \o ToString(h)
AmbulanceId(a) == "AMB" \o ToString(a)

VARIABLES
    hospital,           \* Hospital objects: capacity, available_beds, referrals_received
    patient,            \* Patient objects: status, transfer_completion_time
    amb,                \* Ambulance objects: status, current_patient, destination, route, eta
    ambulances,         \* ReferralSystem.ambulances, in registration order
    referral_requests,  \* ReferralSystem.referral_requests
    referral_history,   \* ReferralSystem.referral_history, one record per row
    messages,           \* CommunicationSystem.messages
    now,                \* the last value datetime.datetime.now() returned
    last                \* the last call made on the core: the operation, the
                        \* arguments that are not found in the state it
                        \* leaves, and what it returned (a referral record
                        \* as its position in referral_requests, None as 0)

vars == <<hospital, patient, amb, ambulances, referral_requests,
          referral_history, messages, now, last>>

\* ----------------------------------------------------------- constructors
\* Hospital.__init__
NewHospital(cap) ==
    [capacity |-> cap, available_beds |-> cap, referrals_received |-> <<>>]

\* Patient.__init__
NewPatient ==
    [status |-> "waiting", transfer_completion_time |-> None]

\* Ambulance.__init__
NewAmbulance ==
    [status |-> "available", current_patient |-> None, destination |-> None,
     route |-> <<>>, eta |-> None]

Init ==
    /\ hospital \in {[h \in Hospitals |-> NewHospital(c[h])] :
                        c \in [Hospitals -> 0..MaxCapacity]}
    /\ patient = [p \in Patients |-> NewPatient]
    /\ amb = [a \in Ambs |-> NewAmbulance]
    /\ ambulances = <<>>
    /\ referral_requests = <<>>
    /\ referral_history = <<>>
    /\ messages = <<>>
    /\ now = 1
    /\ last = [op |-> "init", args |-> <<>>, ret |-> None]

\* --------------------------------------------------------------- Ambulance
\* Ambulance.dispatch
dispatch(A, a, p, destination) ==
    [A EXCEPT ![a].status = "dispatched",
              ![a].current_patient = p,
              ![a].destination = destination]

\* complete_transfer without the reset of the destination
complete_transfer_keeps_destination(A, a) ==
    [A EXCEPT ![a].status = "available",
              ![a].current_patient = None]

\* Ambulance.complete_transfer, the part that changes the ambulance
complete_transfer(A, a) ==
    [A EXCEPT ![a].status = "available",
              ![a].current_patient = None,
              ![a].destination = None]

\* Ambulance.complete_transfer, the part that stamps the current patient;
\* t is the value datetime.datetime.now() returns there.
stamp_patient(P, A, a, t) ==
    IF A[a].current_patient # None
    THEN [P EXCEPT ![A[a].current_patient].transfer_completion_time = t]
    ELSE P

\* ---------------------------------------------------------- ReferralSystem
\* ReferralSystem.add_ambulance
add_ambulance(a) ==
    /\ ambulances' = Append(ambulances, a)
    /\ last' = [op |-> "add_ambulance", args |-> <<a>>, ret |-> None]
    /\ UNCHANGED <<messages, hospital, patient, amb, referral_requests,
                   referral_history, now>>

\* the scan that keeps the last match, not the first
find_last_available_ambulance ==
    LET idx == {i \in 1..Len(ambulances) : amb[ambulances[i]].status = "available"}
    IN  IF idx = {} THEN None
        ELSE ambulances[CHOOSE i \in idx : \A j \in idx : i >= j]

\* ReferralSystem.find_available_ambulance: the first registered ambulance
\* whose status is "available", None when there is none.
find_available_ambulance ==
    LET idx == {i \in 1..Len(ambulances) : amb[ambulances[i]].status = "available"}
    IN  IF idx = {} THEN None
        ELSE ambulances[CHOOSE i \in idx : \A j \in idx : i <= j]

\* the id taken to be the ledger size
next_id_ledger_size == Len(referral_requests)

\* The id create_referral gives to a new record.
next_id == Len(referral_requests) + 1

\* create_referral that also admits the patient at the destination hospital
create_referral_admitting(p, from_hospital, to_hospital, ambulance) ==
    LET a == IF ambulance # None THEN ambulance ELSE find_available_ambulance
    IN  IF a = None
        THEN /\ last' = [op |-> "create_referral", args |-> <<ambulance>>,
                         ret |-> None]
             /\ UNCHANGED <<messages, hospital, patient, amb, ambulances,
                            referral_requests, referral_history, now>>
        ELSE /\ Len(referral_requests) < MaxReferrals
             /\ \E t \in now..MaxTime :
                   LET referral == [id |-> next_id,
                                    patient |-> p,
                                    from_hospital |-> from_hospital,
                                    to_hospital |-> to_hospital,
                                    ambulance |-> a,
                                    timestamp |-> t,
                                    status |-> "in_transit"]
                   IN  /\ now' = t
                       /\ amb' = dispatch(amb, a, p, to_hospital)
                       /\ referral_requests' = Append(referral_requests, referral)
                       /\ last' = [op |-> "create_referral",
                                   args |-> <<ambulance>>,
                                   ret |-> Len(referral_requests) + 1]
             /\ IF hospital[to_hospital].available_beds > 0
                THEN /\ hospital' = [hospital EXCEPT
                            ![to_hospital].available_beds = @ - 1,
                            ![to_hospital].referrals_received = Append(@, p)]
                     /\ patient' = [patient EXCEPT ![p].status = "admitted"]
                ELSE UNCHANGED <<hospital, patient>>
             /\ UNCHANGED <<messages, ambulances, referral_history>>

\* ReferralSystem.create_referral; ambulance = None stands for the default.
create_referral(p, from_hospital, to_hospital, ambulance) ==
    LET a == IF ambulance # None THEN ambulance ELSE find_available_ambulance
    IN  IF a = None
        THEN /\ last' = [op |-> "create_referral", args |-> <<ambulance>>,
                         ret |-> None]
             /\ UNCHANGED <<messages, hospital, patient, amb, ambulances,
                            referral_requests, referral_history, now>>
        ELSE /\ Len(referral_requests) < MaxReferrals
             /\ \E t \in now..MaxTime :
                   LET referral == [id |-> next_id,
                                    patient |-> p,
                                    from_hospital |-> from_hospital,
                                    to_hospital |-> to_hospital,
                                    ambulance |-> a,
                                    timestamp |-> t,
                                    status |-> "in_transit"]
                   IN  /\ now' = t
                       /\ amb' = dispatch(amb, a, p, to_hospital)
                       /\ referral_requests' = Append(referral_requests, referral)
                       /\ last' = [op |-> "create_referral",
                                   args |-> <<ambulance>>,
                                   ret |-> Len(referral_requests) + 1]
             /\ UNCHANGED <<messages, hospital, patient, ambulances,
                            referral_history>>

\* the lookup with the last record, not None, as the default
find_referral_default_last(referral_id) ==
    LET idx == {i \in 1..Len(referral_requests) :
                   referral_requests[i].id = referral_id}
    IN  IF idx = {} THEN Len(referral_requests)
        ELSE CHOOSE i \in idx : \A j \in idx : i <= j

\* The lookup of complete_referral: the index of the first record with the
\* given id, None when there is none.
find_referral(referral_id) ==
    LET idx == {i \in 1..Len(referral_requests) :
                   referral_requests[i].id = referral_id}
    IN  IF idx = {} THEN None ELSE CHOOSE i \in idx : \A j \in idx : i <= j

\* The row complete_referral appends to the history.
new_entry(referral, completion_time) ==
    [Patient |-> PatientName(referral.patient),
     FromHospital |-> HospitalName(referral.from_hospital),
     ToHospital |-> HospitalName(referral.to_hospital),
     Ambulance |-> AmbulanceId(referral.ambulance),
     Status |-> referral.status,
     RequestTime |-> referral.timestamp,
     CompletionTime |-> completion_time]

\* ReferralSystem.complete_referral
complete_referral(referral_id) ==
    LET i == find_referral(referral_id)
    IN  IF i = None
        THEN /\ last' = [op |-> "complete_referral", args |-> <<referral_id>>,
                         ret |-> None]
             /\ UNCHANGED <<messages, hospital, patient, amb, ambulances,
                            referral_requests, referral_history, now>>
        ELSE /\ Len(referral_history) < MaxHistory
             /\ \E t1 \in now..MaxTime : \E completion_time \in t1..MaxTime :
                   LET a == referral_requests[i].ambulance
                       done == [referral_requests[i] EXCEPT !.status = "completed"]
                   IN  /\ patient' = stamp_patient(patient, amb, a, t1)
                       /\ amb' = complete_transfer(amb, a)
                       /\ referral_requests' =
                             [referral_requests EXCEPT ![i] = done]
                       /\ now' = completion_time
                       /\ referral_history' =
                             Append(referral_history,
                                    new_entry(done, completion_time))
                       /\ last' = [op |-> "complete_referral",
                                   args |-> <<referral_id>>, ret |-> i]
             /\ UNCHANGED <<messages, hospital, ambulances>>

\* -------------------------------------------------------- AmbulanceTracker
\* AmbulanceTracker.generate_route: num_points waypoints in interpolation
\* order; a waypoint is represented by its interpolation step.
generate_route == [i \in 1..num_points |-> i]

\* AmbulanceTracker.simulate_movement; minutes is the travel time computed
\* from the distance and the speed.
simulate_movement(a, minutes) ==
    \E t \in now..MaxTime :
        /\ now' = t
        /\ amb' = [amb EXCEPT ![a].eta = t + minutes,
                              ![a].route = generate_route,
                              ![a].status = "en_route"]
        /\ last' = [op |-> "simulate_movement", args |-> <<a>>, ret |-> None]
        /\ UNCHANGED <<messages, hospital, patient, ambulances, referral_requests,
                       referral_history>>

\* ---------------------------------------------------------------- Hospital
\* list.remove: drops the first occurrence of x
RECURSIVE remove(_, _)
remove(s, x) ==
    IF s = <<>> THEN <<>>
    ELSE IF Head(s) = x THEN Tail(s)
    ELSE <<Head(s)>> \o remove(Tail(s), x)

\* x in list
in(x, s) == \E i \in 1..Len(s) : s[i] = x

\* the bed test off by one
has_bed_off_by_one(h) == hospital[h].available_beds >= 0

\* The test of admit_patient
has_bed(h) == hospital[h].available_beds > 0

\* the membership test over the lists of all hospitals
is_received_anywhere(h, p) ==
    \E g \in Hospitals : in(p, hospital[g].referrals_received)

\* The test of discharge_patient
is_received(h, p) == in(p, hospital[h].referrals_received)

\* Hospital.admit_patient
admit_patient(h, p) ==
    IF has_bed(h)
    THEN /\ hospital' = [hospital EXCEPT
                ![h].available_beds = @ - 1,
                ![h].referrals_received = Append(@, p)]
         /\ patient' = [patient EXCEPT ![p].status = "admitted"]
         /\ last' = [op |-> "admit_patient", args |-> <<h, p>>, ret |-> TRUE]
         /\ UNCHANGED <<messages, amb, ambulances, referral_requests,
                        referral_history, now>>
    ELSE /\ last' = [op |-> "admit_patient", args |-> <<h, p>>, ret |-> FALSE]
         /\ UNCHANGED <<messages, hospital, patient, amb, ambulances,
                        referral_requests, referral_history, now>>

\* Hospital.discharge_patient
discharge_patient(h, p) ==
    IF is_received(h, p)
    THEN /\ hospital' = [hospital EXCEPT
                ![h].referrals_received = remove(@, p),
                ![h].available_beds = @ + 1]
         /\ patient' = [patient EXCEPT ![p].status = "discharged"]
         /\ last' = [op |-> "discharge_patient", args |-> <<h, p>>, ret |-> TRUE]
         /\ UNCHANGED <<messages, amb, ambulances, referral_requests,
                        referral_history, now>>
    ELSE /\ last' = [op |-> "discharge_patient", args |-> <<h, p>>, ret |-> FALSE]
         /\ UNCHANGED <<messages, hospital, patient, amb, ambulances,
                        referral_requests, referral_history, now>>

\* ----------------------------------------------------- CommunicationSystem
\* The free-text names messages are sent to; two of them differ in case only.
Recipients == {"nurse", "Nurse", "lab"}

\* lower case of a name
Lower(name) == IF name = "Nurse" THEN "nurse" ELSE name

\* the comparison with the case ignored
recipient_matches_ignoring_case(a, b) == Lower(a) = Lower(b)

\* The comparison m["recipient"] == recipient of get_messages_for
recipient_matches(a, b) == a = b

\* The list comprehension of get_messages_for
RECURSIVE messages_for(_, _)
messages_for(ms, recipient) ==
    IF ms = <<>> THEN <<>>
    ELSE (IF recipient_matches(Head(ms).recipient, recipient)
          THEN <<Head(ms)>> ELSE <<>>) \o messages_for(Tail(ms), recipient)

\* CommunicationSystem.send_message; the message is returned as its position
\* in messages.
send_message(sender, recipient, message_type, content, urgent) ==
    /\ Len(messages) < MaxMessages
    /\ \E t \in now..MaxTime :
          LET msg == [id |-> Len(messages) + 1,
                      sender |-> sender,
                      recipient |-> recipient,
                      type |-> message_type,
                      content |-> content,
                      urgent |-> urgent,
                      timestamp |-> t,
                      read |-> FALSE]
          IN  /\ now' = t
              /\ messages' = Append(messages, msg)
              /\ last' = [op |-> "send_message", args |-> <<>>,
                          ret |-> Len(messages) + 1]
    /\ UNCHANGED <<hospital, patient, amb, ambulances, referral_requests,
                   referral_history>>

\* CommunicationSystem.get_messages_for
get_messages_for(recipient) ==
    /\ last' = [op |-> "get_messages_for", args |-> <<recipient>>,
                ret |-> messages_for(messages, recipient)]
    /\ UNCHANGED <<messages, hospital, patient, amb, ambulances,
                   referral_requests, referral_history, now>>

\* ---------------------------------------------------------- specifications
\* Each ambulance is registered once, in any order.
AddAmbulance ==
    \E a \in Ambs \ {ambulances[i] : i \in 1..Len(ambulances)} : add_ambulance(a)
CreateReferral ==
    \E p \in Patients, f \in Hospitals, a \in Ambs \cup {None} :
        \E t \in Hospitals \ {f} : create_referral(p, f, t, a)
CompleteReferral == \E id \in 0..(MaxReferrals + 1) : complete_referral(id)
\* Every trip is taken to last TripMinutes.
SimulateMovement == \E a \in Ambs : simulate_movement(a, TripMinutes)
AdmitPatient == \E h \in Hospitals, p \in Patients : admit_patient(h, p)
DischargePatient == \E h \in Hospitals, p \in Patients : discharge_patient(h, p)
SendMessage ==
    \E recipient \in Recipients, urgent \in BOOLEAN :
        send_message("doctor", recipient, "general", "text", urgent)
GetMessagesFor == \E recipient \in Recipients : get_messages_for(recipient)

\* The referral ledger and the movement simulator.
LedgerNext ==
    \/ AddAmbulance
    \/ CreateReferral
    \/ CompleteReferral
    \/ SimulateMovement

\* The ledger never reads a hospital's beds: one capacity is enough there.
LedgerInit == Init /\ \A h \in Hospitals : hospital[h].capacity = MaxCapacity

LedgerSpec == LedgerInit /\ [][LedgerNext]_vars

\* The bed bookkeeping of the hospitals.
BedNext ==
    \/ AdmitPatient
    \/ DischargePatient

BedSpec == Init /\ [][BedNext]_vars

\* The message log.
MsgNext ==
    \/ SendMessage
    \/ GetMessagesFor

MsgSpec == LedgerInit /\ [][MsgNext]_vars

Next ==
    \/ LedgerNext
    \/ BedNext
    \/ MsgNext

Spec == Init /\ [][Next]_vars

\* ------------------------------------------------------------------ claims
Available(a) == amb[a].status = "available"

Completed == {i \in 1..Len(referral_requests) :
                 referral_requests[i].status = "completed"}

\* s is an initial segment of t
IsPrefix(s, t) == Len(s) <= Len(t) /\ SubSeq(t, 1, Len(s)) = s

\* the step is a call of op that returned a referral record
Returned(op) == last'.op = op /\ last'.ret # None

\* C1: the ambulance bound by a successful create_referral, whether found by
\* the scan or supplied by the caller, was "available" before the call;
\* exactly one ambulance went from "available" to "dispatched" and one
\* record with status "in_transit" was appended to the ledger.
C1_CreateBindsAvailable ==
    [][Returned("create_referral") =>
          LET r == referral_requests'[last'.ret]
          IN  /\ Available(r.ambulance)
              /\ Cardinality({a \in Ambs : /\ amb[a].status = "available"
                                           /\ amb'[a].status = "dispatched"}) = 1
              /\ \A a \in Ambs : amb'[a].status # amb[a].status =>
                                    Available(a) /\ amb'[a].status = "dispatched"
              /\ referral_requests' = Append(referral_requests, r)
              /\ r.status = "in_transit"]_vars

\* C2: the history holds one row per completed referral, however often
\* complete_referral is called, and its rows are never changed or removed.
C2_HistoryOncePerReferral ==
    [][/\ Len(referral_history') = Cardinality(Completed')
       /\ IsPrefix(referral_history, referral_history')]_vars

\* C3: an ambulance has a current patient exactly when its status is not
\* "available".
C3_PatientIffBusy ==
    \A a \in Ambs : (amb[a].current_patient # None) <=> ~Available(a)

\* C4: complete_referral on an in_transit referral frees its ambulance and
\* clears the ambulance's patient and destination, marks the referral
\* completed and appends exactly one row that carries the referral's patient,
\* hospitals and ambulance, Status "completed", the referral's timestamp as
\* Request Time and a Completion Time that is not earlier.
C4_CompleteInTransit ==
    [][(/\ Returned("complete_referral")
        /\ referral_requests[last'.ret].status = "in_transit") =>
          LET r == referral_requests[last'.ret]
              row == referral_history'[Len(referral_history')]
          IN  /\ amb'[r.ambulance].status = "available"
              /\ amb'[r.ambulance].current_patient = None
              /\ amb'[r.ambulance].destination = None
              /\ referral_requests'[last'.ret].status = "completed"
              /\ Len(referral_history') = Len(referral_history) + 1
              /\ IsPrefix(referral_history, referral_history')
              /\ row.Patient = PatientName(r.patient)
              /\ row.FromHospital = HospitalName(r.from_hospital)
              /\ row.ToHospital = HospitalName(r.to_hospital)
              /\ row.Ambulance = AmbulanceId(r.ambulance)
              /\ row.Status = "completed"
              /\ row.RequestTime = r.timestamp
              /\ row.CompletionTime >= row.RequestTime]_vars

\* A first completion has just returned, its row stamped later than the
\* request, after the ambulance had been set moving.
C4_Witness ==
    /\ last.op = "complete_referral"
    /\ last.ret # None
    /\ Len(referral_history) = 1
    /\ referral_history[1].CompletionTime > referral_history[1].RequestTime
    /\ amb[referral_requests[last.ret].ambulance].route # <<>>

\* C5: a successful complete_referral leaves the referral's ambulance with an
\* empty route and no eta.
C5_CompleteClearsRoute ==
    [][Returned("complete_referral") =>
          LET a == referral_requests[last'.ret].ambulance
          IN  amb'[a].route = <<>> /\ amb'[a].eta = None]_vars

\* C6: a successful complete_referral on an in_transit referral stamps the
\* completion time of the referral's own patient with the time of the call
\* and changes no other patient's completion time.
C6_StampsOwnPatient ==
    [][(/\ Returned("complete_referral")
        /\ referral_requests[last'.ret].status = "in_transit") =>
          LET p == referral_requests[last'.ret].patient
          IN  /\ patient'[p].transfer_completion_time \in now..now'
              /\ \A q \in Patients \ {p} : patient'[q] = patient[q]]_vars

\* C7: create_referral called while no ambulance is "available" returns None
\* and changes no ambulance, record, history row, patient or hospital.
C7_CreateFailsWhenNoneAvailable ==
    [][(last'.op = "create_referral" /\ \A a \in Ambs : ~Available(a)) =>
          /\ last'.ret = None
          /\ UNCHANGED <<hospital, patient, amb, ambulances,
                         referral_requests, referral_history>>]_vars

\* C8: complete_referral with an id that no record carries returns None,
\* appends no history row and changes no ambulance, patient or record.
C8_CompleteUnknownId ==
    [][(/\ last'.op = "complete_referral"
        /\ \A i \in 1..Len(referral_requests) :
              referral_requests[i].id # last'.args[1]) =>
          /\ last'.ret = None
          /\ UNCHANGED <<hospital, patient, amb, ambulances,
                         referral_requests, referral_history>>]_vars

\* A completion with the next id not yet given out was refused while the
\* ledger holds an open referral.
C8_Witness ==
    /\ last.op = "complete_referral"
    /\ last.ret = None
    /\ last.args[1] = Len(referral_requests) + 1
    /\ \E i \in 1..Len(referral_requests) :
          referral_requests[i].status = "in_transit"

Beds(H, h) == H[h].available_beds

BedsInRange(H) ==
    \A h \in Hospitals :
       /\ 0 <= Beds(H, h)
       /\ Beds(H, h) <= H[h].capacity
       /\ Beds(H, h) + Len(H[h].referrals_received) = H[h].capacity

\* C9: every hospital has 0 <= available_beds <= capacity and
\* available_beds + len(referrals_received) = capacity; a successful
\* admit_patient lowers the hospital's beds by exactly 1, a successful
\* discharge_patient raises them by exactly 1, and neither touches another
\* hospital.
C9_BedAccounting ==
    [][LET h == last'.args[1]
       IN  /\ BedsInRange(hospital)
           /\ BedsInRange(hospital')
           /\ (last'.op = "admit_patient" /\ last'.ret) =>
                 /\ Beds(hospital', h) = Beds(hospital, h) - 1
                 /\ \A g \in Hospitals \ {h} : hospital'[g] = hospital[g]
           /\ (last'.op = "discharge_patient" /\ last'.ret) =>
                 /\ Beds(hospital', h) = Beds(hospital, h) + 1
                 /\ \A g \in Hospitals \ {h} : hospital'[g] = hospital[g]]_vars

\* A patient has just been admitted a second time to the same hospital,
\* which is now full.
C9_Witness ==
    /\ last.op = "admit_patient"
    /\ last.ret
    /\ \E h \in Hospitals :
          /\ Beds(hospital, h) = 0
          /\ Len(hospital[h].referrals_received) = 2
          /\ hospital[h].referrals_received[1] = hospital[h].referrals_received[2]

\* C10: admit_patient on a hospital without a free bed, and discharge_patient
\* of a patient who is not in the hospital's list, return False and change
\* neither the hospital nor the patient.
C10_FailedBedOpsNoOp ==
    [][LET h == last'.args[1]
           p == last'.args[2]
       IN  /\ (last'.op = "admit_patient" /\ Beds(hospital, h) = 0) =>
                 /\ last'.ret = FALSE
                 /\ UNCHANGED <<hospital, patient>>
           /\ (/\ last'.op = "discharge_patient"
               /\ \A i \in 1..Len(hospital[h].referrals_received) :
                     hospital[h].referrals_received[i] # p) =>
                 /\ last'.ret = FALSE
                 /\ UNCHANGED <<hospital, patient>>]_vars

\* The discharge of a patient admitted elsewhere was refused by a hospital
\* that holds another patient.
C10_Witness ==
    /\ last.op = "discharge_patient"
    /\ last.ret = FALSE
    /\ hospital[last.args[1]].referrals_received # <<>>
    /\ patient[last.args[2]].status = "admitted"

\* C11: a patient's status changes only from "waiting" to "admitted", by a
\* successful admit_patient, or from "admitted" to "discharged", by a
\* successful discharge_patient.
C11_PatientLifecycle ==
    [][\A p \in Patients :
          patient'[p].status # patient[p].status =>
             \/ /\ patient[p].status = "waiting"
                /\ patient'[p].status = "admitted"
                /\ last'.op = "admit_patient" /\ last'.ret
             \/ /\ patient[p].status = "admitted"
                /\ patient'[p].status = "discharged"
                /\ last'.op = "discharge_patient" /\ last'.ret]_vars

\* C12: an ambulance's status changes only from "available" to "dispatched"
\* by create_referral, from "dispatched" to "en_route" by simulate_movement,
\* or from "dispatched" or "en_route" to "available" by complete_referral;
\* it is never "arrived".
C12_AmbulanceLifecycle ==
    [][\A a \in Ambs :
          /\ amb'[a].status # "arrived"
          /\ amb'[a].status # amb[a].status =>
                \/ /\ amb[a].status = "available"
                   /\ amb'[a].status = "dispatched"
                   /\ last'.op = "create_referral"
                \/ /\ amb[a].status = "dispatched"
                   /\ amb'[a].status = "en_route"
                   /\ last'.op = "simulate_movement"
                \/ /\ amb[a].status \in {"dispatched", "en_route"}
                   /\ amb'[a].status = "available"
                   /\ last'.op = "complete_referral"]_vars

\* C13: create_referral without a supplied ambulance binds a registered
\* ambulance that was "available", and no ambulance registered before it
\* was "available".
C13_FirstFit ==
    [][(Returned("create_referral") /\ last'.args[1] = None) =>
          LET a == referral_requests'[last'.ret].ambulance
          IN  \E i \in 1..Len(ambulances) :
                 /\ ambulances[i] = a
                 /\ Available(a)
                 /\ \A j \in 1..(i - 1) : ~Available(ambulances[j])]_vars

\* The scan has just bound the ambulance registered first although one with
\* a smaller number, registered after it, is still available.
C13_Witness ==
    /\ last.op = "create_referral"
    /\ last.args[1] = None
    /\ last.ret # None
    /\ Len(ambulances) = 2
    /\ ambulances[1] > ambulances[2]
    /\ referral_requests[last.ret].ambulance = ambulances[1]
    /\ Available(ambulances[2])

\* C14: the k-th record of the ledger has id k; a create_referral that fails
\* leaves the ledger as it is, and complete_referral neither changes an id
\* nor removes a record.
C14_IdsInOrder ==
    [][/\ \A k \in 1..Len(referral_requests') : referral_requests'[k].id = k
       /\ (last'.op = "create_referral" /\ last'.ret = None) =>
             referral_requests' = referral_requests
       /\ last'.op = "complete_referral" =>
             /\ Len(referral_requests') = Len(referral_requests)
             /\ \A k \in 1..Len(referral_requests) :
                   referral_requests'[k].id = referral_requests[k].id]_vars

\* A create_referral has just failed on a ledger of two records, the first
\* of them completed.
C14_Witness ==
    /\ last.op = "create_referral"
    /\ last.ret = None
    /\ Len(referral_requests) = 2
    /\ referral_requests[1].status = "completed"

\* C15: the message log only grows, its k-th message has id k and is
\* unread; get_messages_for(r) changes nothing and returns exactly the
\* messages whose recipient is r, letter for letter, in the order sent.
C15_MessagesFor ==
    [][/\ IsPrefix(messages, messages')
       /\ \A k \in 1..Len(messages') :
             messages'[k].id = k /\ messages'[k].read = FALSE
       /\ last'.op = "send_message" =>
             /\ Len(messages') = Len(messages) + 1
             /\ last'.ret = Len(messages')
       /\ last'.op = "get_messages_for" =>
             LET r == last'.args[1]
                 res == last'.ret
             IN  /\ messages' = messages
                 /\ \A k \in 1..Len(res) :
                       /\ res[k].recipient = r
                       /\ messages[res[k].id] = res[k]
                 /\ \A i \in 1..Len(messages) :
                       messages[i].recipient = r =>
                          \E k \in 1..Len(res) : res[k] = messages[i]
                 /\ \A k \in 1..(Len(res) - 1) : res[k].id < res[k + 1].id]_vars

\* The inbox of "nurse" was read after a message to "Nurse" had been sent
\* between two messages to "nurse": it holds the first and the third.
C15_Witness ==
    /\ last.op = "get_messages_for"
    /\ last.args[1] = "nurse"
    /\ Len(messages) = 3
    /\ messages[2].recipient = "Nurse"
    /\ last.ret = <<messages[1], messages[3]>>

\* C16: create_referral, whether it succeeds or fails, changes no patient,
\* no hospital, no history row and no ambulance other than the one it binds.
C16_CreateFrame ==
    [][last'.op = "create_referral" =>
          /\ UNCHANGED <<patient, hospital, referral_history, ambulances>>
          /\ IF last'.ret = None
             THEN amb' = amb /\ referral_requests' = referral_requests
             ELSE \A a \in Ambs \ {referral_requests'[last'.ret].ambulance} :
                     amb'[a] = amb[a]]_vars

\* A referral has just been created for a waiting patient towards a
\* hospital with all beds free, while another ambulance is on its way.
C16_Witness ==
    /\ last.op = "create_referral"
    /\ last.ret # None
    /\ LET r == referral_requests[last.ret]
       IN  /\ patient[r.patient].status = "waiting"
           /\ hospital[r.to_hospital].available_beds
                 = hospital[r.to_hospital].capacity
           /\ hospital[r.to_hospital].available_beds > 0
           /\ \E a \in Ambs \ {r.ambulance} : amb[a].status = "en_route"

InTransit == {i \in 1..Len(referral_requests) :
                 referral_requests[i].status = "in_transit"}

\* C17: the ambulance of every in_transit referral is not "available" and
\* carries that referral's patient to that referral's destination.
C17_OpenReferralHoldsAmbulance ==
    \A i \in InTransit :
       LET r == referral_requests[i]
       IN  /\ ~Available(r.ambulance)
           /\ amb[r.ambulance].current_patient = r.patient
           /\ amb[r.ambulance].destination = r.to_hospital

\* C18: no ambulance is the ambulance of two in_transit referrals.
C18_OneOpenReferralPerAmbulance ==
    \A i \in InTransit, j \in InTransit :
       i # j => referral_requests[i].ambulance # referral_requests[j].ambulance

\* the places a patient takes in the hospitals' lists
BedsOf(p) ==
    {<<h, i>> \in Hospitals \X (1..MaxCapacity) :
        /\ i <= Len(hospital[h].referrals_received)
        /\ hospital[h].referrals_received[i] = p}

\* C19: a patient is in the hospitals' lists at most once, and is in one
\* exactly when the patient's status is "admitted".
C19_OneBedPerPatient ==
    \A p \in Patients :
       /\ Cardinality(BedsOf(p)) <= 1
       /\ (BedsOf(p) # {}) <=> (patient[p].status = "admitted")

\* C20: a patient has at most one in_transit referral and is the current
\* patient of at most one ambulance.
C20_OneOpenReferralPerPatient ==
    \A p \in Patients :
       /\ Cardinality({i \in InTransit : referral_requests[i].patient = p}) <= 1
       /\ Cardinality({a \in Ambs : amb[a].current_patient = p}) <= 1

====
